---- MODULE Spec2Model ----
(***************************************************************************)
(* Trip segmentation and distribution comparison of the fuel-monitoring    *)
(* logs (compare_bbm_distribution.py, get_stats.py).                       *)
(*                                                                         *)
(* Numbers are exact rationals [k |-> "num", n, d] in lowest terms, with   *)
(* the IEEE specials NaN, +inf and -inf that pandas/numpy produce for a    *)
(* missing value and for a division by zero.  Rounding of binary floating  *)
(* point is not modelled.  Timestamps are seconds since an arbitrary       *)
(* origin, or NaT.                                                         *)
(***************************************************************************)
EXTENDS Integers, Sequences, FiniteSets, TLC

VARIABLES
    prog,          \* which script runs: "segment", "main", "get_stats"
    pc,            \* position of the script
    file_ok,       \* whether the workbook and both sheets can be read
    sheet,         \* sheet name -> raw rows of the sheet
    df_parsed,     \* sheet name -> load_data's frame once its columns are converted
    df_active,     \* sheet name -> rows returned by load_data
    df,            \* sheet name -> calculate_trips's frame with its derived columns
    trips,         \* sheet name -> rows of the frame calculate_trips returns
    min_distance,  \* arguments of calculate_trips
    min_fuel,
    stats,         \* p-values computed so far: name -> float
    verdict,       \* conclusion printed by main: "none", "significant", "not_significant"
    files,         \* files written: "files.txt", "bbm_comparison_mw_ecdf.png"
    console        \* error message printed, "" when none

vars == <<prog, pc, file_ok, sheet, df_parsed, df_active, df, trips, min_distance, min_fuel,
          stats, verdict, files, console>>

Sheets == {"BARU", "LAMA"}

----------------------------------------------------------------------------
(* float64 arithmetic as pandas applies it *)

Abs(x) == IF x < 0 THEN -x ELSE x

RECURSIVE GCD(_, _)
GCD(a, b) == IF b = 0 THEN a ELSE GCD(b, a % b)

NaN  == [k |-> "nan",  n |-> 0, d |-> 1]
Inf  == [k |-> "inf",  n |-> 0, d |-> 1]
NInf == [k |-> "ninf", n |-> 0, d |-> 1]

\* n/d in lowest terms with a positive denominator (d # 0)
Num(n, d) ==
    LET g == GCD(Abs(n), Abs(d))
        s == IF d < 0 THEN -1 ELSE 1
    IN  [k |-> "num", n |-> (s * n) \div g, d |-> (s * d) \div g]

IsNaN(a) == a.k = "nan"

\* a - b  (Series.diff and the scalar subtractions; operands are finite or NaN)
FSub(a, b) ==
    IF IsNaN(a) \/ IsNaN(b) THEN NaN
    ELSE Num(a.n * b.d - b.n * a.d, a.d * b.d)

\* a / b on numpy float64 scalars: x/0 is +-inf, 0/0 is nan, no exception
FDiv(a, b) ==
    IF IsNaN(a) \/ IsNaN(b) THEN NaN
    ELSE IF b.n = 0
         THEN (IF a.n = 0 THEN NaN ELSE IF a.n > 0 THEN Inf ELSE NInf)
         ELSE Num(a.n * b.d, a.d * b.n)

\* a < b; every comparison with NaN is False
FLt(a, b) ==
    /\ ~IsNaN(a)
    /\ ~IsNaN(b)
    /\ IF a.k = "ninf" THEN b.k # "ninf"
       ELSE IF a.k = "inf" THEN FALSE
       ELSE IF b.k = "inf" THEN TRUE
       ELSE IF b.k = "ninf" THEN FALSE
       ELSE a.n * b.d < b.n * a.d

FGt(a, b) == FLt(b, a)

FLe(a, b) == ~IsNaN(a) /\ ~IsNaN(b) /\ (a = b \/ FLt(a, b))

----------------------------------------------------------------------------
(* timestamps *)

NaT == [k |-> "nat", v |-> 0]
Ts(secs) == [k |-> "ts", v |-> secs]
IsNaT(t) == t.k = "nat"

\* pd.to_datetime(text, format=fmt, errors='coerce') on one cell: the cell
\* parses only when it is written in that format
to_datetime(cell, fmt) == IF cell.fmt = fmt THEN Ts(cell.t) ELSE NaT

ParseAll(col, fmt) == [i \in 1..Len(col) |-> to_datetime(col[i], fmt)]

NaCount(parsed) == Cardinality({i \in 1..Len(parsed) : IsNaT(parsed[i])})

\* parsed.isna().sum() > len(col) * 0.5
MostlyNa(parsed, col) == 2 * NaCount(parsed) > Len(col)

\* pd.to_datetime(col, errors='coerce') without a format: what it recognises
\* depends on the pandas version and on the first cell (one inferred format
\* for the column, or cell-by-cell parsing); every cell that is a date in some
\* format may come out parsed or NaT, text that is no date is always NaT
AutoDetect(col) ==
    {p \in [1..Len(col) -> {NaT} \cup {Ts(col[i].t) : i \in 1..Len(col)}] :
        \A i \in 1..Len(col) :
            \/ p[i] = NaT
            \/ col[i].fmt # "bad" /\ p[i] = Ts(col[i].t)}

\* The set of columns parse_datetime_safe may return
parse_datetime_safe(col) ==
    LET p0 == ParseAll(col, "dmy")
        p1 == IF MostlyNa(p0, col) THEN ParseAll(col, "ymd") ELSE p0
        p2 == IF MostlyNa(p1, col) THEN ParseAll(col, "iso") ELSE p1
    IN  IF MostlyNa(p2, col) THEN AutoDetect(col) ELSE {p2}

\* pd.to_numeric(cell, errors='coerce'): a number stays, anything else is NaN
to_numeric(cell) == IF cell.k = "num" THEN cell ELSE NaN

----------------------------------------------------------------------------
(* load_data *)

SeqRemove(s, i) ==
    [j \in 1..(Len(s) - 1) |-> IF j < i THEN s[j] ELSE s[j + 1]]

\* df.sort_values('GPSTIME') with the default, unstable, sort: every
\* arrangement that is ascending in GPSTIME, rows with equal times in any order
RECURSIVE sort_values(_)
sort_values(s) ==
    IF s = <<>> THEN {<<>>}
    ELSE LET heads == {i \in 1..Len(s) :
                         \A j \in 1..Len(s) : s[i].GPSTIME.v <= s[j].GPSTIME.v}
         IN  UNION {{<<s[i]>> \o rest : rest \in sort_values(SeqRemove(s, i))} :
                      i \in heads}

IsActive(r) == r.ACC = "ON"
HasTime(r) == ~IsNaT(r.GPSTIME)

\* rows with GPSTIME parsed and the numeric columns coerced
Converted(rows, parsed) ==
    [i \in 1..Len(rows) |->
        [GPSTIME  |-> parsed[i],
         ODOMETER |-> to_numeric(rows[i].ODOMETER),
         FUEL     |-> to_numeric(rows[i].FUEL),
         ACC      |-> rows[i].ACC]]

\* the engine-off rows kept
DropSortFilter_KeepOff(frame) == sort_values(SelectSeq(frame, HasTime))

\* lines 56-60 on the converted frame: rows without a timestamp dropped, the
\* rest sorted by time, the engine-on rows kept; the set of possible results
DropSortFilter(frame) ==
    {SelectSeq(sorted, IsActive) : sorted \in sort_values(SelectSeq(frame, HasTime))}

\* The runs load_data may take on the raw rows of a sheet, each a pair: the
\* frame with its columns converted (line 53), the frame returned
load_data(rows) ==
    UNION {{<<Converted(rows, parsed), a>> : a \in DropSortFilter(Converted(rows, parsed))} :
           parsed \in parse_datetime_safe([i \in 1..Len(rows) |-> rows[i].GPSTIME])}

----------------------------------------------------------------------------
(* calculate_trips *)

GapMinutes == 60
RefuelUnits == 10
MinConsumption == 1
MaxConsumption == 20

\* Series.diff(): NaN for the first row
time_diff(s, i) ==
    IF i = 1 \/ IsNaT(s[i].GPSTIME) \/ IsNaT(s[i - 1].GPSTIME) THEN NaN
    ELSE Num(s[i].GPSTIME.v - s[i - 1].GPSTIME.v, 60)

odo_diff(s, i) == IF i = 1 THEN NaN ELSE FSub(s[i].ODOMETER, s[i - 1].ODOMETER)

fuel_diff(s, i) == IF i = 1 THEN NaN ELSE FSub(s[i].FUEL, s[i - 1].FUEL)

\* the odometer reset left out
new_trip_NoReset(s, i) ==
    \/ FGt(time_diff(s, i), Num(GapMinutes, 1))
    \/ FGt(fuel_diff(s, i), Num(RefuelUnits, 1))

\* a refuel of 10 or more, not of more than 10
new_trip_RefuelAtLeast(s, i) ==
    \/ FGt(time_diff(s, i), Num(GapMinutes, 1))
    \/ FLt(odo_diff(s, i), Num(0, 1))
    \/ FLe(Num(RefuelUnits, 1), fuel_diff(s, i))

\* the time gap left out
new_trip_NoGap(s, i) ==
    \/ FLt(odo_diff(s, i), Num(0, 1))
    \/ FGt(fuel_diff(s, i), Num(RefuelUnits, 1))

new_trip(s, i) ==
    \/ FGt(time_diff(s, i), Num(GapMinutes, 1))
    \/ FLt(odo_diff(s, i), Num(0, 1))
    \/ FGt(fuel_diff(s, i), Num(RefuelUnits, 1))

\* ids counted from 1
trip_id_FromOne(s, i) == Cardinality({j \in 1..i : new_trip(s, j)}) + 1

\* df['new_trip'].cumsum()
trip_id(s, i) == Cardinality({j \in 1..i : new_trip(s, j)})

\* the frame after line 82, with the derived columns
WithTripIds(s) ==
    [i \in 1..Len(s) |->
        [GPSTIME   |-> s[i].GPSTIME,
         ODOMETER  |-> s[i].ODOMETER,
         FUEL      |-> s[i].FUEL,
         ACC       |-> s[i].ACC,
         time_diff |-> time_diff(s, i),
         odo_diff  |-> odo_diff(s, i),
         fuel_diff |-> fuel_diff(s, i),
         new_trip  |-> new_trip(s, i),
         trip_id   |-> trip_id(s, i)]]

\* rows of one group of df.groupby('trip_id'), in frame order
Group(d, id) == SelectSeq(d, LAMBDA r : r.trip_id = id)

distance(g) == FSub(g[Len(g)].ODOMETER, g[1].ODOMETER)

\* last - first
fuel_used_Reversed(g) == FSub(g[Len(g)].FUEL, g[1].FUEL)

fuel_used(g) == FSub(g[1].FUEL, g[Len(g)].FUEL)

\* no upper limit
Realistic_NoUpper(c) == FLe(Num(MinConsumption, 1), c)

Realistic(c) == FLe(Num(MinConsumption, 1), c) /\ FLe(c, Num(MaxConsumption, 1))

\* whether the loop body appends a row for group g
Accepted(g, md, mf) ==
    /\ Len(g) >= 2
    /\ FGt(distance(g), md)
    /\ FGt(fuel_used(g), mf)
    /\ Realistic(FDiv(distance(g), fuel_used(g)))

TripRow(id, g) ==
    [trip_id         |-> id,
     distance_km     |-> distance(g),
     fuel_used_L     |-> fuel_used(g),
     consumption_kmL |-> FDiv(distance(g), fuel_used(g)),
     start_time      |-> g[1].GPSTIME]

\* the loop over groupby('trip_id'), keys ascending, from key id on
RECURSIVE TripList(_, _, _, _)
TripList(d, id, md, mf) ==
    IF d = <<>> \/ id > d[Len(d)].trip_id THEN <<>>
    ELSE LET g == Group(d, id)
         IN  (IF Accepted(g, md, mf) THEN <<TripRow(id, g)>> ELSE <<>>)
             \o TripList(d, id + 1, md, mf)

calculate_trips(s, md, mf) == TripList(WithTripIds(s), 0, md, mf)

----------------------------------------------------------------------------
(* inputs *)

MaxLen == 3
MaxDirtyLen == 3
MaxIdLen == 5
MaxSheetLen == 5

Text == [k |-> "text", n |-> 0, d |-> 1]

RawRow(t, fmt, odo, fuel, acc) ==
    [GPSTIME |-> [fmt |-> fmt, t |-> t], ODOMETER |-> odo, FUEL |-> fuel, ACC |-> acc]

FAdd(a, b) == FSub(a, Num(-b.n, b.d))

\* the row that follows row r after dt seconds, with the given sensor deltas
Following(r, dt, dodo, dfuel) ==
    RawRow(r.GPSTIME.t + dt, "dmy", FAdd(r.ODOMETER, dodo), FAdd(r.FUEL, dfuel), "ON")

FirstRow == RawRow(0, "dmy", Num(100, 1), Num(50, 1), "ON")

\* row i of the log that starts at FirstRow and takes the steps f[1], f[2], ...,
\* each a triple (seconds, odometer delta, fuel delta)
RECURSIVE LogRow(_, _)
LogRow(i, f) ==
    IF i = 1 THEN FirstRow
    ELSE Following(LogRow(i - 1, f), f[i - 1][1], f[i - 1][2], f[i - 1][3])

Log(n, f) == [i \in 1..n |-> LogRow(i, f)]

\* steps of clean, time-ordered engine-on logs: gaps of 30, 60 and 70 minutes,
\* odometer steps -5, 0 and +50, fuel steps -5, +10 and +10.01
DriveSteps ==
    {1800, 3600, 4200} \X {Num(-5, 1), Num(0, 1), Num(50, 1)}
        \X {Num(-5, 1), Num(10, 1), Num(1001, 100)}

\* steps of longer logs: short and long gaps, plausible (50 / 5) and
\* implausible (50 / 1) consumption
LongSteps == {1800, 4200} \X {Num(50, 1)} \X {Num(-5, 1), Num(-1, 1)}

\* the workbook whose sheet BARU holds `rows` and whose sheet LAMA is empty
Only(rows) == [s \in {"BARU", "LAMA"} |-> IF s = "BARU" THEN rows ELSE <<>>]

DriveLogs ==
    \E n \in 0..MaxLen : \E f \in [1..(n - 1) -> DriveSteps] : sheet = Only(Log(n, f))

LongLogs ==
    \E n \in (MaxLen + 1)..MaxIdLen : \E f \in [1..(n - 1) -> LongSteps] :
        sheet = Only(Log(n, f))

Defects == {"none", "off", "bad_time", "iso", "bad_odo", "bad_fuel", "same_time"}

\* row i of a steady drive (30 minutes, +50 odometer, -5 fuel per row) as the
\* sheet holds it with one defect
DirtyRow(i, defect) ==
    RawRow(IF defect = "same_time" THEN 0 ELSE 1800 * (i - 1),
           IF defect = "bad_time" THEN "bad" ELSE IF defect = "iso" THEN "iso" ELSE "dmy",
           IF defect = "bad_odo" THEN Text ELSE Num(100 + 50 * (i - 1), 1),
           IF defect = "bad_fuel" THEN Text ELSE Num(50 - 5 * (i - 1), 1),
           IF defect = "off" THEN "OFF" ELSE "ON")

DirtyLogs ==
    \E n \in 1..MaxDirtyLen : \E f \in [1..n -> Defects] :
        sheet = Only([i \in 1..n |-> DirtyRow(i, f[i])])

\* row i of a log of two-row trips (50 distance on 5 fuel) 90 minutes apart
SheetRow(i) ==
    RawRow(1800 * (i - 1) + 3600 * ((i - 1) \div 2), "dmy",
           Num(100 + 50 * (i - 1), 1), Num(90 - 5 * (i - 1), 1), "ON")

SheetLogs ==
    \E nb \in 0..MaxSheetLen, nl \in 0..MaxSheetLen :
        sheet = [s \in {"BARU", "LAMA"} |->
                   [i \in 1..(IF s = "BARU" THEN nb ELSE nl) |-> SheetRow(i)]]

DefaultMinDistance == Num(1, 2)
DefaultMinFuel == Num(1, 5)

\* (min_distance, min_fuel) pairs passed to calculate_trips
Thresholds ==
    {<<DefaultMinDistance, DefaultMinFuel>>,
     <<Num(-100, 1), Num(-100, 1)>>,
     <<Num(60, 1), Num(6, 1)>>}

\* p-values a test may report
PValues == {Num(0, 1), Num(49, 1000), Num(1, 20), Num(51, 1000), Num(1, 1), NaN}

----------------------------------------------------------------------------
(* segmentation of one sheet: load_data, then calculate_trips *)

NoStats == [x \in {} |-> NaN]
Empty == [s \in Sheets |-> <<>>]

InitCommon ==
    /\ pc = "load"
    /\ df_parsed = Empty
    /\ df_active = Empty
    /\ df = Empty
    /\ trips = Empty
    /\ stats = NoStats
    /\ verdict = "none"
    /\ files = {}
    /\ console = ""

Init ==
    /\ prog = "segment"
    /\ file_ok = TRUE
    /\ (DriveLogs \/ LongLogs \/ DirtyLogs)
    /\ \E th \in Thresholds : min_distance = th[1] /\ min_fuel = th[2]
    /\ InitCommon

LoadData ==
    /\ prog = "segment"
    /\ pc = "load"
    /\ \E run \in load_data(sheet["BARU"]) :
          /\ df_parsed' = [df_parsed EXCEPT !["BARU"] = run[1]]
          /\ df_active' = [df_active EXCEPT !["BARU"] = run[2]]
    /\ pc' = "trips"
    /\ UNCHANGED <<prog, file_ok, sheet, df, trips, min_distance, min_fuel, stats,
                   verdict, files, console>>

CalculateTrips ==
    /\ prog = "segment"
    /\ pc = "trips"
    /\ df' = [df EXCEPT !["BARU"] = WithTripIds(df_active["BARU"])]
    /\ trips' = [trips EXCEPT
                   !["BARU"] = calculate_trips(df_active["BARU"], min_distance, min_fuel)]
    /\ pc' = "done"
    /\ UNCHANGED <<prog, file_ok, sheet, df_parsed, df_active, min_distance, min_fuel, stats,
                   verdict, files, console>>

Next == LoadData \/ CalculateTrips

Spec == Init /\ [][Next]_vars

\* the same on the longer logs alone
InitLong ==
    /\ prog = "segment"
    /\ file_ok = TRUE
    /\ LongLogs
    /\ \E th \in Thresholds : min_distance = th[1] /\ min_fuel = th[2]
    /\ InitCommon

SpecLong == InitLong /\ [][Next]_vars

----------------------------------------------------------------------------
(* main of compare_bbm_distribution.py, and get_stats.py *)

Alpha == Num(1, 20)

RECURSIVE Sum(_)
Sum(xs) == IF xs = <<>> THEN Num(0, 1) ELSE FAdd(xs[1], Sum(Tail(xs)))

\* trips['consumption_kmL']
consumption_kmL(t) == [i \in 1..Len(t) |-> t[i].consumption_kmL]

\* Series.mean(); NaN for an empty series
mean(xs) == FDiv(Sum(xs), Num(Len(xs), 1))

Put(f, name, value) == [x \in DOMAIN f \cup {name} |-> IF x = name THEN value ELSE f[x]]

InitMain ==
    /\ prog \in {"main", "get_stats"}
    /\ file_ok \in BOOLEAN
    /\ SheetLogs
    /\ min_distance = DefaultMinDistance
    /\ min_fuel = DefaultMinFuel
    /\ InitCommon

\* lines 117-122: both sheets loaded, or the error reported and the run over
MainLoad ==
    /\ prog = "main"
    /\ pc = "load"
    /\ \/ /\ file_ok
          /\ \E baru \in load_data(sheet["BARU"]), lama \in load_data(sheet["LAMA"]) :
                /\ df_parsed' = [s \in Sheets |-> IF s = "BARU" THEN baru[1] ELSE lama[1]]
                /\ df_active' = [s \in Sheets |-> IF s = "BARU" THEN baru[2] ELSE lama[2]]
          /\ pc' = "trips"
          /\ UNCHANGED console
       \/ /\ ~file_ok
          /\ console' = "Error loading data"
          /\ pc' = "done"
          /\ UNCHANGED <<df_parsed, df_active>>
    /\ UNCHANGED <<prog, file_ok, sheet, df, trips, min_distance, min_fuel, stats,
                   verdict, files>>

\* lines 129-130
MainTrips ==
    /\ prog = "main"
    /\ pc = "trips"
    /\ df' = [s \in Sheets |-> WithTripIds(df_active[s])]
    /\ trips' = [s \in Sheets |-> calculate_trips(df_active[s], min_distance, min_fuel)]
    /\ pc' = "guard"
    /\ UNCHANGED <<prog, file_ok, sheet, df_parsed, df_active, min_distance, min_fuel, stats,
                   verdict, files, console>>

\* line 135
NotEnough == Len(trips["BARU"]) < 2 \/ Len(trips["LAMA"]) < 2

\* lines 135-137
MainGuard ==
    /\ prog = "main"
    /\ pc = "guard"
    /\ \/ /\ NotEnough
          /\ console' = "Error: Not enough data points for t-test"
          /\ pc' = "done"
       \/ /\ ~NotEnough
          /\ pc' = "describe"
          /\ UNCHANGED console
    /\ UNCHANGED <<prog, file_ok, sheet, df_parsed, df_active, df, trips, min_distance, min_fuel,
                   stats, verdict, files>>

\* lines 144-155: the means printed (the standard deviations, printed beside
\* them, are no rationals and are left out)
MainDescribe ==
    /\ prog = "main"
    /\ pc = "describe"
    /\ stats' = Put(Put(stats, "mean_baru", mean(consumption_kmL(trips["BARU"]))),
                    "mean_lama", mean(consumption_kmL(trips["LAMA"])))
    /\ pc' = "levene"
    /\ UNCHANGED <<prog, file_ok, sheet, df_parsed, df_active, df, trips, min_distance, min_fuel,
                   verdict, files, console>>

\* line 161
equal_var(lev_p) == FGt(lev_p, Num(1, 20))

\* lines 158-168: Levene's test, then the t-test in the variant it selects
\* (equal_var 1: pooled, 0: Welch); scipy's p-values are inputs
MainTTest ==
    /\ prog = "main"
    /\ pc = "levene"
    /\ \E lev_p \in PValues, t_p \in PValues :
          stats' = Put(Put(Put(stats, "lev_p", lev_p),
                           "equal_var", Num(IF equal_var(lev_p) THEN 1 ELSE 0, 1)),
                       "t_p", t_p)
    /\ pc' = "mannwhitney"
    /\ UNCHANGED <<prog, file_ok, sheet, df_parsed, df_active, df, trips, min_distance, min_fuel,
                   verdict, files, console>>

\* line 181
MainMannWhitney ==
    /\ prog = "main"
    /\ pc = "mannwhitney"
    /\ \E u_p \in PValues : stats' = Put(stats, "u_p", u_p)
    /\ pc' = "conclusion"
    /\ UNCHANGED <<prog, file_ok, sheet, df_parsed, df_active, df, trips, min_distance, min_fuel,
                   verdict, files, console>>

\* p <= alpha
Conclusion_AtMost(u_p) == IF FLe(u_p, Alpha) THEN "significant" ELSE "not_significant"

\* lines 188-193
Conclusion(u_p) == IF FLt(u_p, Alpha) THEN "significant" ELSE "not_significant"

MainConclusion ==
    /\ prog = "main"
    /\ pc = "conclusion"
    /\ verdict' = Conclusion(stats["u_p"])
    /\ pc' = "plot"
    /\ UNCHANGED <<prog, file_ok, sheet, df_parsed, df_active, df, trips, min_distance, min_fuel,
                   stats, files, console>>

\* lines 196-228
MainPlot ==
    /\ prog = "main"
    /\ pc = "plot"
    /\ files' = files \cup {"bbm_comparison_mw_ecdf.png"}
    /\ pc' = "done"
    /\ UNCHANGED <<prog, file_ok, sheet, df_parsed, df_active, df, trips, min_distance, min_fuel,
                   stats, verdict, console>>

\* get_stats.py lines 11-14, inside its try: an unreadable workbook raises
GetStatsTrips ==
    /\ prog = "get_stats"
    /\ pc = "load"
    /\ \/ /\ file_ok
          /\ \E baru \in load_data(sheet["BARU"]), lama \in load_data(sheet["LAMA"]) :
                /\ df_parsed' = [s \in Sheets |-> IF s = "BARU" THEN baru[1] ELSE lama[1]]
                /\ df_active' = [s \in Sheets |-> IF s = "BARU" THEN baru[2] ELSE lama[2]]
          /\ df' = [s \in Sheets |-> WithTripIds(df_active'[s])]
          /\ trips' = [s \in Sheets |->
                         calculate_trips(df_active'[s], min_distance, min_fuel)]
          /\ pc' = "mannwhitney"
          /\ UNCHANGED console
       \/ /\ ~file_ok
          /\ console' = "No such file or directory"
          /\ pc' = "done"
          /\ UNCHANGED <<df_parsed, df_active, df, trips>>
    /\ UNCHANGED <<prog, file_ok, sheet, min_distance, min_fuel, stats, verdict, files>>

\* trips[...]['consumption_kmL'] raises KeyError on the frame of an empty
\* trip list, which has no columns
NoColumn == \E s \in Sheets : trips[s] = <<>>

\* get_stats.py line 16
GetStatsMannWhitney ==
    /\ prog = "get_stats"
    /\ pc = "mannwhitney"
    /\ \/ /\ NoColumn
          /\ console' = "'consumption_kmL'"
          /\ pc' = "done"
          /\ UNCHANGED stats
       \/ /\ ~NoColumn
          /\ \E u_p \in PValues : stats' = Put(stats, "u_p", u_p)
          /\ pc' = "write"
          /\ UNCHANGED console
    /\ UNCHANGED <<prog, file_ok, sheet, df_parsed, df_active, df, trips, min_distance, min_fuel,
                   verdict, files>>

\* get_stats.py lines 21-25
GetStatsWrite ==
    /\ prog = "get_stats"
    /\ pc = "write"
    /\ files' = files \cup {"final_stats.txt"}
    /\ stats' = Put(Put(stats, "mean_baru", mean(consumption_kmL(trips["BARU"]))),
                    "mean_lama", mean(consumption_kmL(trips["LAMA"])))
    /\ pc' = "done"
    /\ UNCHANGED <<prog, file_ok, sheet, df_parsed, df_active, df, trips, min_distance, min_fuel,
                   verdict, console>>

NextMain ==
    \/ MainLoad
    \/ MainTrips
    \/ MainGuard
    \/ MainDescribe
    \/ MainTTest
    \/ MainMannWhitney
    \/ MainConclusion
    \/ MainPlot
    \/ GetStatsTrips
    \/ GetStatsMannWhitney
    \/ GetStatsWrite

SpecMain == InitMain /\ [][NextMain]_vars

----------------------------------------------------------------------------
(* properties *)

Segmented == prog = "segment" /\ pc = "done"

Frame == df["BARU"]
Output == trips["BARU"]

\* positions in the frame of the rows that carry trip id `id`
RowsOf(id) == {i \in 1..Len(Frame) : Frame[i].trip_id = id}
FirstOf(S) == CHOOSE i \in S : \A j \in S : i <= j
LastOf(S) == CHOOSE i \in S : \A j \in S : j <= i
Ids == {Frame[i].trip_id : i \in 1..Len(Frame)}
OutputIds == {Output[i].trip_id : i \in 1..Len(Output)}

\* distance, fuel used and consumption of the group with trip id `id`, from
\* the sensor columns of its first and last row
GroupDistance(id) ==
    FSub(Frame[LastOf(RowsOf(id))].ODOMETER, Frame[FirstOf(RowsOf(id))].ODOMETER)
GroupFuel(id) ==
    FSub(Frame[FirstOf(RowsOf(id))].FUEL, Frame[LastOf(RowsOf(id))].FUEL)
InBand(c) ==
    /\ c.k = "num"
    /\ MinConsumption * c.d <= c.n
    /\ c.n <= MaxConsumption * c.d
PassesFilters(id) ==
    /\ FGt(GroupDistance(id), min_distance)
    /\ FGt(GroupFuel(id), min_fuel)
    /\ InBand(FDiv(GroupDistance(id), GroupFuel(id)))

\* C1: every trip in the output of calculate_trips has distance > min_distance,
\* fuel_used > min_fuel and 1 <= consumption <= 20, and no group that violates
\* one of the three conditions has a row in the output.
FilterInvariant ==
    /\ \A i \in 1..Len(Output) :
          /\ FGt(Output[i].distance_km, min_distance)
          /\ FGt(Output[i].fuel_used_L, min_fuel)
          /\ InBand(Output[i].consumption_kmL)
    /\ \A id \in Ids : ~PassesFilters(id) => id \notin OutputIds

\* a trip was kept and a group of two rows or more was discarded by the filters
FilterWitness ==
    /\ Segmented
    /\ Output # <<>>
    /\ \E id \in Ids : Cardinality(RowsOf(id)) >= 2 /\ id \notin OutputIds

\* C2 as claimed: output trip ids are contiguous from 0 (or 1), each one more
\* than the id of the output trip before it.
ContiguousIds ==
    /\ Output # <<>> => Output[1].trip_id \in {0, 1}
    /\ \A i \in 2..Len(Output) : Output[i].trip_id = Output[i - 1].trip_id + 1

\* C2 amended: output trip ids are strictly increasing in output order, and
\* each is the id of a group of the frame, that is the number of boundary rows
\* up to the group's first row, discarded groups counted.
IncreasingIds ==
    /\ \A i \in 2..Len(Output) : Output[i].trip_id > Output[i - 1].trip_id
    /\ \A i \in 1..Len(Output) :
          /\ Output[i].trip_id \in Ids
          /\ Output[i].trip_id =
                Cardinality({j \in 1..FirstOf(RowsOf(Output[i].trip_id)) :
                               Frame[j].new_trip})

\* two output trips with a discarded group between them
IdGapWitness ==
    /\ Segmented
    /\ \E i \in 2..Len(Output) : Output[i].trip_id > Output[i - 1].trip_id + 1

\* C3 as claimed: once the trips are computed and either sheet yields fewer
\* than 2, no statistic is computed, no verdict is given, final_stats.txt is
\* not written, and the run ends with an error.
InsufficientDataHalts ==
    (pc \notin {"load", "trips"} /\ NotEnough) =>
        /\ DOMAIN stats = {}
        /\ verdict = "none"
        /\ "final_stats.txt" \notin files
        /\ pc = "done" => console # ""

\* C4 as claimed: no row with a missing odometer or fuel value is in the
\* frame load_data returns, so none reaches calculate_trips.
NoMissingValueLoaded ==
    \A s \in Sheets : \A i \in 1..Len(df_active[s]) :
        ~IsNaN(df_active[s][i].ODOMETER) /\ ~IsNaN(df_active[s][i].FUEL)

Lower(a, b) == a.k = "num" /\ b.k = "num" /\ a.n * b.d < b.n * a.d

\* C5: a row whose odometer is lower than its predecessor's has the
\* predecessor's trip id plus 1 and is the first row of its group.
OdometerResetStartsTrip ==
    \A i \in 2..Len(Frame) :
        Lower(Frame[i].ODOMETER, Frame[i - 1].ODOMETER) =>
            /\ Frame[i].trip_id = Frame[i - 1].trip_id + 1
            /\ FirstOf(RowsOf(Frame[i].trip_id)) = i

Seconds(i) == Frame[i].GPSTIME.v - Frame[i - 1].GPSTIME.v

\* an odometer drop within 60 minutes and without a refuel started a trip
OdometerResetWitness ==
    /\ Segmented
    /\ \E i \in 2..Len(Frame) :
          /\ Lower(Frame[i].ODOMETER, Frame[i - 1].ODOMETER)
          /\ Seconds(i) <= 60 * GapMinutes
          /\ Lower(Frame[i].FUEL, Frame[i - 1].FUEL)
          /\ Frame[i].trip_id = Frame[i - 1].trip_id + 1

\* rows i-1 and i are at most 60 minutes apart and the odometer did not drop
Quiet(i) ==
    /\ Seconds(i) <= 60 * GapMinutes
    /\ ~Lower(Frame[i].ODOMETER, Frame[i - 1].ODOMETER)
    /\ ~IsNaN(Frame[i].ODOMETER) /\ ~IsNaN(Frame[i - 1].ODOMETER)

FuelRise(i) == FSub(Frame[i].FUEL, Frame[i - 1].FUEL)

\* C6: between rows at most 60 minutes apart with a non-negative odometer
\* delta, a fuel rise of exactly 10 keeps the trip id and a rise above 10
\* starts a new trip.
RefuelThresholdStrict ==
    \A i \in 2..Len(Frame) :
        Quiet(i) =>
            /\ FuelRise(i) = Num(RefuelUnits, 1) => Frame[i].trip_id = Frame[i - 1].trip_id
            /\ Lower(Num(RefuelUnits, 1), FuelRise(i)) =>
                  Frame[i].trip_id = Frame[i - 1].trip_id + 1

\* a rise of exactly 10 and a rise of 10.01 in one log
RefuelWitness ==
    /\ Segmented
    /\ \E i, j \in 2..Len(Frame) :
          /\ Quiet(i) /\ FuelRise(i) = Num(RefuelUnits, 1)
          /\ Frame[i].trip_id = Frame[i - 1].trip_id
          /\ Quiet(j) /\ FuelRise(j) = Num(1001, 100)
          /\ Frame[j].trip_id = Frame[j - 1].trip_id + 1

\* C7: in the time-sorted frame, rows more than 60 minutes apart are never in
\* the same group, the later one starts a group, and no output trip comes
\* from a group that holds such a gap.
TimeGapSplits ==
    /\ \A i \in 2..Len(Frame) : Seconds(i) >= 0
    /\ \A i \in 2..Len(Frame) :
          Seconds(i) > 60 * GapMinutes =>
              /\ Frame[i].trip_id # Frame[i - 1].trip_id
              /\ FirstOf(RowsOf(Frame[i].trip_id)) = i
    /\ \A k \in 1..Len(Output) : \A i \in RowsOf(Output[k].trip_id) :
          i # FirstOf(RowsOf(Output[k].trip_id)) => Seconds(i) <= 60 * GapMinutes

\* a 70-minute gap between rows with valid odometer and fuel deltas
TimeGapWitness ==
    /\ Segmented
    /\ \E i \in 2..Len(Frame) :
          /\ Seconds(i) = 70 * 60
          /\ Lower(Frame[i - 1].ODOMETER, Frame[i].ODOMETER)
          /\ Lower(Frame[i].FUEL, Frame[i - 1].FUEL)
          /\ Frame[i].trip_id = Frame[i - 1].trip_id + 1

\* C8: the verdict is "significant" exactly when the Mann-Whitney p-value is
\* below 0.05 (0.05 itself and NaN give "not significant"), whatever the
\* Levene and t-test p-values; a run that completes gives a verdict.
VerdictRule ==
    /\ verdict # "none" =>
          /\ "u_p" \in DOMAIN stats
          /\ verdict = "significant" <=>
                (stats["u_p"].k = "num" /\ 20 * stats["u_p"].n < stats["u_p"].d)
          /\ verdict \in {"significant", "not_significant"}
    /\ (prog = "main" /\ pc \in {"plot", "done"} /\ console = "") => verdict # "none"

\* p = 0.05 exactly with a t-test p-value below 0.05: not significant
VerdictWitness ==
    /\ prog = "main" /\ pc = "done"
    /\ verdict = "not_significant"
    /\ stats["u_p"] = Num(1, 20)
    /\ stats["t_p"] = Num(0, 1)
    /\ stats["equal_var"] = Num(0, 1)

OnOnly(rows) == SelectSeq(rows, LAMBDA r : r.ACC = "ON")

\* C9: the frame that is segmented holds engine-on rows only, the frame and
\* the trips are ones that the readings without the engine-off ones yield, and
\* the deltas of a row are taken against the engine-on row before it.
EngineOffExcluded ==
    /\ \A i \in 1..Len(Frame) : Frame[i].ACC = "ON"
    /\ \A i \in 1..Len(df_active["BARU"]) : df_active["BARU"][i].ACC = "ON"
    /\ df_active["BARU"] \in DropSortFilter(OnOnly(df_parsed["BARU"]))
    /\ Segmented =>
          /\ Output \in {calculate_trips(a, min_distance, min_fuel) :
                           a \in DropSortFilter(OnOnly(df_parsed["BARU"]))}
          /\ \A i \in 2..Len(Frame) :
                /\ Frame[i].odo_diff = FSub(Frame[i].ODOMETER, Frame[i - 1].ODOMETER)
                /\ Frame[i].fuel_diff = FSub(Frame[i].FUEL, Frame[i - 1].FUEL)

\* an engine-off row between two engine-on rows of one output trip
EngineOffWitness ==
    /\ Segmented
    /\ Output # <<>>
    /\ sheet["BARU"] = <<DirtyRow(1, "none"), DirtyRow(2, "off"), DirtyRow(3, "none")>>
    /\ Len(Frame) = 2

ExampleFrame ==
    <<[GPSTIME |-> Ts(0), ODOMETER |-> Num(100, 1), FUEL |-> Num(50, 1), ACC |-> "ON"],
      [GPSTIME |-> Ts(1800), ODOMETER |-> Num(150, 1), FUEL |-> Num(45, 1), ACC |-> "ON"]>>

\* C10: an output trip comes from a group of 2 rows or more; its distance is
\* last odometer - first odometer, its fuel_used first fuel - last fuel, its
\* consumption distance / fuel_used and its start_time the first timestamp.
\* The log (0, 100, 50), (30 min, 150, 45) with the default thresholds gives
\* exactly one trip: distance 50, fuel_used 5, consumption 10.
TripMetrics ==
    /\ \A k \in 1..Len(Output) :
          LET t == Output[k]
              rows == RowsOf(t.trip_id)
          IN  /\ Cardinality(rows) >= 2
              /\ t.distance_km = GroupDistance(t.trip_id)
              /\ t.fuel_used_L = GroupFuel(t.trip_id)
              /\ t.consumption_kmL.k = "num"
              /\ t.consumption_kmL.n * t.fuel_used_L.n * t.distance_km.d
                    = t.distance_km.n * t.fuel_used_L.d * t.consumption_kmL.d
              /\ t.start_time = Frame[FirstOf(rows)].GPSTIME
    /\ \A k, m \in 1..Len(Output) : Output[k].trip_id = Output[m].trip_id => k = m
    /\ (Segmented /\ df_active["BARU"] = ExampleFrame
          /\ min_distance = DefaultMinDistance /\ min_fuel = DefaultMinFuel) =>
          Output = <<[trip_id |-> 0, distance_km |-> Num(50, 1),
                      fuel_used_L |-> Num(5, 1), consumption_kmL |-> Num(10, 1),
                      start_time |-> Ts(0)]>>

\* the example log segmented with the default thresholds, one trip out
TripMetricsWitness ==
    /\ Segmented
    /\ df_active["BARU"] = ExampleFrame
    /\ min_distance = DefaultMinDistance
    /\ Len(Output) = 1

====
